---- MODULE Spec2Model ----
(***************************************************************************)
(* Model of kqxs (src/main.go): a job that fetches three lottery RSS       *)
(* feeds, extracts the prize lines of the first item of each feed with     *)
(* parseDescription, renders them into one message and posts the message   *)
(* to Telegram, either once (--now) or on every firing of a daily cron     *)
(* entry.                                                                  *)
(*                                                                         *)
(* A Go string is modelled as a sequence of one-character strings, so that *)
(* strings.ReplaceAll, Split, TrimSpace, HasPrefix and Contains are        *)
(* computed character by character as the standard library computes them.  *)
(* A Go map is a function whose DOMAIN is the set of keys present; the     *)
(* order of a range over a map is unspecified in Go and is a               *)
(* nondeterministic choice of a permutation of the keys.                   *)
(***************************************************************************)
EXTENDS Naturals, Sequences, FiniteSets, TLC

VARIABLES
    \* ---- the process (init, main, cron) ----
    phase,      \* "init" | "main" | "manual" | "scheduled" | "exited"
    exitCode,   \* process exit status once phase = "exited", else NoCode
    token,      \* telegramBotToken (TELEGRAM_TOKEN), read by init()
    chat,       \* telegramChatID (TELEGRAM_TO), read by init()
    runNow,     \* the --now flag
    rssURLs,    \* the package variable rssURLs: region label -> feed URL
    fired,      \* number of firings of the cron entry so far
    overlapped, \* history: some firing found an earlier run still executing
    runs,       \* the executions of runJob, in the order they were started
    lastFetch,  \* history: the latest fetch of the run SpecJob follows
    \* ---- one call of parseDescription, and one range over its result ----
    ppc,        \* "idle" | "input" | "parsed" | "ranged"
    pieces,     \* the pieces the description is made of
    style,      \* the break spellings that separate the pieces, used cyclically
    results,    \* parseDescription(desc)
    results2,   \* parseDescription of the same pieces joined by newlines only
    order       \* the keys of results in the order the range visited them

vars == <<phase, exitCode, token, chat, runNow, rssURLs, fired, overlapped, runs,
          lastFetch, ppc, pieces, style, results, results2, order>>

procVars == <<phase, exitCode, token, chat, runNow, rssURLs, fired, overlapped, runs,
              lastFetch>>
parseVars == <<ppc, pieces, style, results, results2, order>>

----------------------------------------------------------------------------
(* Bounds *)

\* longest description whose pieces are separated by newlines, in pieces
MaxPieces == 5

\* longest description whose pieces are separated by break tags, in pieces
MaxStyled == 3

\* number of firings of the cron entry that are followed
MaxFirings == 2

\* number of firings that are followed where termination is checked
MaxLiveFirings == 1

----------------------------------------------------------------------------
(* Strings *)

NL == <<"\n">>

\* unicode.IsSpace restricted to the characters the inputs use
Whitespace == {" ", "\t", "\r", "\n"}

HasPrefixAt(s, p, i) ==
    /\ i + Len(p) - 1 <= Len(s)
    /\ \A k \in 1..Len(p) : s[i + k - 1] = p[k]

HasPrefix(s, p) == HasPrefixAt(s, p, 1)

Contains(s, sub) == \E i \in 1..(Len(s) + 1) : HasPrefixAt(s, sub, i)

\* strings.ReplaceAll: leftmost, non-overlapping occurrences, old non-empty
RECURSIVE ReplaceFrom(_, _, _, _)
ReplaceFrom(s, old, new, i) ==
    IF i > Len(s) THEN <<>>
    ELSE IF HasPrefixAt(s, old, i)
         THEN new \o ReplaceFrom(s, old, new, i + Len(old))
         ELSE <<s[i]>> \o ReplaceFrom(s, old, new, i + 1)

ReplaceAll(s, old, new) == ReplaceFrom(s, old, new, 1)

\* strings.Split(s, sep), sep non-empty: n separators give n + 1 fields
RECURSIVE SplitFrom(_, _, _, _)
SplitFrom(s, sep, i, cur) ==
    IF i > Len(s) THEN <<cur>>
    ELSE IF HasPrefixAt(s, sep, i)
         THEN <<cur>> \o SplitFrom(s, sep, i + Len(sep), <<>>)
         ELSE SplitFrom(s, sep, i + 1, Append(cur, s[i]))

Split(s, sep) == SplitFrom(s, sep, 1, <<>>)

RECURSIVE TrimLeft(_)
TrimLeft(s) ==
    IF s # <<>> /\ Head(s) \in Whitespace THEN TrimLeft(Tail(s)) ELSE s

RECURSIVE TrimRight(_)
TrimRight(s) ==
    IF s # <<>> /\ s[Len(s)] \in Whitespace
    THEN TrimRight(SubSeq(s, 1, Len(s) - 1))
    ELSE s

TrimSpace(s) == TrimRight(TrimLeft(s))

----------------------------------------------------------------------------
(* parseDescription *)

EmptyMap == <<>>

\* lines 73-75 with the third replacement left out
NormalizeTwoSpellings(desc) ==
    ReplaceAll(ReplaceAll(desc, <<"<","b","r",">">>, NL),
               <<"<","b","r","/",">">>, NL)

\* lines 73-75: the three ReplaceAll calls, in order
Normalize(desc) ==
    ReplaceAll(
        ReplaceAll(
            ReplaceAll(desc, <<"<","b","r",">">>, NL),
            <<"<","b","r","/",">">>, NL),
        <<"<","b","r"," ","/",">">>, NL)

\* line 89
IsLocation(line) == HasPrefix(line, <<"[">>) /\ Contains(line, <<"]">>)

\* line 95 with the prefix test replaced by a substring test
IsPrizeAnywhere(line) == Contains(line, <<"G", ".">>)

\* line 95
IsPrize(line) == HasPrefix(line, <<"G", ".">>)

\* line 96 with the new line put in front of the list
PrependTo(res, loc, line) ==
    IF loc \in DOMAIN res
    THEN [res EXCEPT ![loc] = <<line>> \o @]
    ELSE res @@ (loc :> <<line>>)

\* line 96: results[currentLocation] = append(results[currentLocation], line)
AppendTo(res, loc, line) ==
    IF loc \in DOMAIN res
    THEN [res EXCEPT ![loc] = Append(@, line)]
    ELSE res @@ (loc :> <<line>>)

\* the loop body with the entry for a location created when its marker is read
LoopBodyEager(st, raw) ==
    LET line == TrimSpace(raw) IN
    IF line = <<>> THEN st
    ELSE IF IsLocation(line)
         THEN [res |-> IF line \in DOMAIN st.res THEN st.res
                       ELSE st.res @@ (line :> <<>>),
               cur |-> line]
    ELSE IF IsPrize(line) THEN [st EXCEPT !.res = AppendTo(st.res, st.cur, line)]
    ELSE st

\* the loop body with the list of a location started anew at each marker
LoopBodyRestart(st, raw) ==
    LET line == TrimSpace(raw) IN
    IF line = <<>> THEN st
    ELSE IF IsLocation(line)
         THEN [res |-> IF line \in DOMAIN st.res
                       THEN [st.res EXCEPT ![line] = <<>>]
                       ELSE st.res,
               cur |-> line]
    ELSE IF IsPrize(line) THEN [st EXCEPT !.res = AppendTo(st.res, st.cur, line)]
    ELSE st

\* lines 82-98: one iteration; st = [res: results, cur: currentLocation]
LoopBody(st, raw) ==
    LET line == TrimSpace(raw) IN
    IF line = <<>> THEN st
    ELSE IF IsLocation(line) THEN [st EXCEPT !.cur = line]
    ELSE IF IsPrize(line) THEN [st EXCEPT !.res = AppendTo(st.res, st.cur, line)]
    ELSE st

RECURSIVE Loop(_, _, _)
Loop(ls, i, st) ==
    IF i > Len(ls) THEN st ELSE Loop(ls, i + 1, LoopBody(st, ls[i]))

\* lines 72-101
parseDescription(desc) ==
    Loop(Split(Normalize(desc), NL), 1, [res |-> EmptyMap, cur |-> <<>>]).res

----------------------------------------------------------------------------
(* The descriptions parseDescription is applied to *)

LocA == <<"[", "A", "]">>
LocB == <<"[", "B", "]">>

\* the pieces a description is made of: two location markers, a prize line, a
\* prize line with surrounding whitespace, and three lines of other text (one
\* that opens a bracket and never closes it, one of whitespace only, one that
\* has "]" and "G." but not as a prefix)
Noise == <<"[", "C", "\n", " ", "\n", "x", "]", "G", ".">>

Pieces ==
    { LocA, LocB,
      <<"G", ".", "1">>,
      <<" ", "G", ".", "2", "\t">>,
      Noise }

BrLower == <<"<", "b", "r", ">">>
BrSlash == <<"<", "b", "r", "/", ">">>
BrSpaceSlash == <<"<", "b", "r", " ", "/", ">">>
BrUpper == <<"<", "B", "R", ">">>
BrMixed == <<"<", "B", "r", "/", ">">>

\* the spellings lines 73-75 replace, and the newline itself
Recognized == { NL, BrLower, BrSlash, BrSpaceSlash }

\* a style is the sequence of break spellings used between the pieces, cyclically
Styles ==
    { <<NL>>, <<BrLower>>, <<BrSlash>>, <<BrSpaceSlash>>,
      <<BrSpaceSlash, BrLower, BrSlash, NL>>,
      <<BrUpper>>, <<BrMixed>> }

StyleRecognized(st) == \A i \in 1..Len(st) : st[i] \in Recognized

RECURSIVE JoinFrom(_, _, _)
JoinFrom(ls, st, i) ==
    IF i > Len(ls) THEN <<>>
    ELSE IF i = Len(ls) THEN ls[i]
    ELSE ls[i] \o st[((i - 1) % Len(st)) + 1] \o JoinFrom(ls, st, i + 1)

\* the description: the pieces joined by the break spellings of the style
Join(ls, st) == JoinFrom(ls, st, 1)

Desc == Join(pieces, style)

\* the same pieces separated by newlines
DescNL == Join(pieces, <<NL>>)

SeqsUpTo(S, n) == UNION { [1..k -> S] : k \in 0..n }

\* the orders in which a range over a map with key set S can visit the keys
Perms(S) ==
    { f \in [1..Cardinality(S) -> S] :
        \A i, j \in 1..Cardinality(S) : f[i] = f[j] => i = j }

----------------------------------------------------------------------------
(* The sources and the message *)

MienBac == <<"M", "i", "ề", "n", " ", "B", "ắ", "c">>
MienTrung == <<"M", "i", "ề", "n", " ", "T", "r", "u", "n", "g">>
MienNam == <<"M", "i", "ề", "n", " ", "N", "a", "m">>

\* lines 28-32, in the order of the literal
Sources == <<MienBac, MienTrung, MienNam>>

URLs ==
    (MienBac :> "https://xosodaiphat.com/ket-qua-xo-so-mien-bac-xsmb.rss") @@
    (MienTrung :> "https://xosodaiphat.com/ket-qua-xo-so-mien-trung-xsmt.rss") @@
    (MienNam :> "https://xosodaiphat.com/ket-qua-xo-so-mien-nam-xsmn.rss")

\* line 117; "U+1F3B0" stands for the one character of that code point
Title ==
    <<"U+1F3B0", " ", "*", "K", "ế", "t", " ", "q", "u", "ả", " ", "x", "ổ",
      " ", "s", "ố", " ", "h", "ô", "m", " ", "n", "a", "y", "*", "\n", "\n">>

\* line 135: fmt.Sprintf("📢 %s - %s\n", region, item.Title)
Header(region, title) ==
    <<"U+1F4E2", " ">> \o region \o <<" ", "-", " ">> \o title \o NL

RECURSIVE WriteLines(_, _)
\* lines 142-145: each prize followed by a newline
WriteLines(prizes, i) ==
    IF i > Len(prizes) THEN <<>>
    ELSE prizes[i] \o NL \o WriteLines(prizes, i + 1)

\* lines 138-147 with the label written whether or not it is empty
WriteGroupAlwaysLabel(loc, prizes) == loc \o NL \o WriteLines(prizes, 1) \o NL

\* lines 138-147: one group
WriteGroup(loc, prizes) ==
    (IF loc # <<>> THEN loc \o NL ELSE <<>>) \o WriteLines(prizes, 1) \o NL

RECURSIVE WriteGroups(_, _, _)
\* lines 137-148: the groups in the order ord of the range over the map
WriteGroups(table, ord, i) ==
    IF i > Len(ord) THEN <<>>
    ELSE WriteGroup(ord[i], table[ord[i]]) \o WriteGroups(table, ord, i + 1)

----------------------------------------------------------------------------
(* What a fetch can return *)

Item(title, desc) == [Title |-> title, Description |-> desc, PubDate |-> "d"]

FetchError == [err |-> TRUE, items |-> <<>>]
Feed(items) == [err |-> FALSE, items |-> items]

\* fetchRSS fails, decodes a feed with no item, with one item or with two
Outcomes(its) ==
    {FetchError, Feed(<<>>)}
    \cup { Feed(<<i>>) : i \in its }
    \cup { Feed(<<i, j>>) : i \in its, j \in its }

TitleKQ == <<"K", "Q">>
TitleXS == <<"X", "S">>

\* one location with two prize lines
DescOneLoc ==
    LocA \o BrLower \o <<"G", ".", "1">> \o BrSlash \o <<"G", ".", "2">>

\* no location marker
DescNoLoc == <<"G", ".", "1">> \o NL \o <<"x">>

\* two locations
DescTwoLoc ==
    LocA \o BrSpaceSlash \o <<"G", ".", "1">> \o NL \o LocB \o NL \o <<"G", ".", "2">>

\* no prize line
DescNoPrize == LocA \o NL \o <<"x">>

FeedDescs == {DescOneLoc, DescNoLoc, DescTwoLoc, DescNoPrize}

FeedItems ==
    { Item(TitleKQ, DescOneLoc), Item(TitleXS, DescNoLoc),
      Item(TitleKQ, DescTwoLoc), Item(TitleXS, DescNoPrize) }

SchedOutcomes == Outcomes({Item(TitleKQ, DescOneLoc)})

JobOutcomes == Outcomes(FeedItems)

\* line 132: parseDescription of each description a feed can carry, tabulated
PrizeTable == [d \in FeedDescs |-> parseDescription(d)]

----------------------------------------------------------------------------
(* runJob *)

NoCode == 99

NoFetch == [run |-> 0, region |-> <<>>, out |-> FetchError, before |-> <<>>]

\* lines 116-117 with the builder starting empty
NewRunNoTitle ==
    [pc |-> "loop",
     todo |-> DOMAIN rssURLs,
     msg |-> <<>>,
     fetched |-> [s \in DOMAIN rssURLs |-> 0],
     skipped |-> {},
     sends |-> 0,
     anySkipped |-> FALSE,
     postErr |-> FALSE]

\* lines 116-117 with one builder shared by the runs in progress
NewRunSharedBuilder ==
    [pc |-> "loop",
     todo |-> DOMAIN rssURLs,
     msg |-> IF runs = <<>> THEN Title ELSE runs[Len(runs)].msg \o Title,
     fetched |-> [s \in DOMAIN rssURLs |-> 0],
     skipped |-> {},
     sends |-> 0,
     anySkipped |-> FALSE,
     postErr |-> FALSE]

\* lines 116-117: a new execution of runJob, about to range over rssURLs;
\* fetched, skipped and sends are history, and so are anySkipped and postErr,
\* which record at the return what went wrong in the run
NewRun ==
    [pc |-> "loop",
     todo |-> DOMAIN rssURLs,
     msg |-> Title,
     fetched |-> [s \in DOMAIN rssURLs |-> 0],
     skipped |-> {},
     sends |-> 0,
     anySkipped |-> FALSE,
     postErr |-> FALSE]

\* lines 121-128 with the run blocking for good on a source it cannot read
SkipAndBlock(run, region) ==
    [run EXCEPT !.pc = "blocked",
                !.fetched[region] = @ + 1,
                !.skipped = @ \cup {region}]

\* lines 121-128 with return in place of continue
SkipAndReturn(run, region) ==
    [run EXCEPT !.pc = "done", !.msg = <<>>,
                !.todo = @ \ {region},
                !.fetched[region] = @ + 1,
                !.skipped = @ \cup {region}]

\* lines 121-128 with a notice written for the source that is skipped
SkipWithNotice(run, region) ==
    [run EXCEPT !.todo = @ \ {region},
                !.fetched[region] = @ + 1,
                !.skipped = @ \cup {region},
                !.msg = @ \o region \o NL]

\* lines 121-128: the fetch failed or the feed has no item: continue
Skip(run, region) ==
    [run EXCEPT !.todo = @ \ {region},
                !.fetched[region] = @ + 1,
                !.skipped = @ \cup {region}]

\* lines 130-148: the first item is parsed and written, groups in order ord
Render(run, region, item, table, ord) ==
    [run EXCEPT !.todo = @ \ {region},
                !.fetched[region] = @ + 1,
                !.msg = @ \o Header(region, item.Title) \o WriteGroups(table, ord, 1)]

\* line 130 with the newest item taken to be the last one
LastItem(items) == items[Len(items)]

\* line 130: item := rss.Channel.Items[0]
FirstItem(items) == items[1]

\* lines 119-149: one iteration of the range over rssURLs, for key region, the
\* fetch returning out
Visit(r, region, out) ==
    /\ r \in 1..Len(runs)
    /\ runs[r].pc = "loop"
    /\ region \in runs[r].todo
    /\ IF out.err \/ Len(out.items) = 0
       THEN runs' = [runs EXCEPT ![r] = Skip(@, region)]
       ELSE LET item == FirstItem(out.items)
                prizesByLocation == PrizeTable[item.Description]
            IN  \E ord \in Perms(DOMAIN prizesByLocation) :
                    runs' = [runs EXCEPT
                                ![r] = Render(@, region, item, prizesByLocation, ord)]
    /\ UNCHANGED <<phase, exitCode, token, chat, runNow, rssURLs, fired, overlapped>>
    /\ UNCHANGED parseVars

\* lines 152-153 and 107: the range is over, the message is posted
Post(run) == [run EXCEPT !.pc = "post", !.sends = @ + 1]

SendToTelegram(r) ==
    /\ r \in 1..Len(runs)
    /\ runs[r].pc = "loop"
    /\ runs[r].todo = {}
    /\ runs' = [runs EXCEPT ![r] = Post(@)]
    /\ UNCHANGED <<phase, exitCode, token, chat, runNow, rssURLs, fired, overlapped>>
    /\ UNCHANGED lastFetch
    /\ UNCHANGED parseVars

\* lines 153-158 with a run that stops in a state of its own when the post fails
ReturnedOrFailed(run, failed) ==
    IF failed
    THEN [run EXCEPT !.pc = "failed", !.msg = <<>>, !.skipped = {},
                     !.anySkipped = (run.skipped # {}), !.postErr = TRUE]
    ELSE [run EXCEPT !.pc = "done", !.msg = <<>>, !.skipped = {},
                     !.anySkipped = (run.skipped # {})]

\* lines 153-158: runJob prints the outcome of the post and returns; its
\* builder is gone
Returned(run, failed) ==
    [run EXCEPT !.pc = "done", !.msg = <<>>, !.skipped = {},
                !.anySkipped = (run.skipped # {}), !.postErr = failed]

\* lines 108-112 and 153-157: http.Post returns, with an error or without
PostReturns(r, failed) ==
    /\ r \in 1..Len(runs)
    /\ runs[r].pc = "post"
    /\ runs' = [runs EXCEPT ![r] = Returned(@, failed)]
    /\ UNCHANGED <<phase, exitCode, token, chat, runNow, rssURLs, fired, overlapped>>
    /\ UNCHANGED lastFetch
    /\ UNCHANGED parseVars

Running == { r \in 1..Len(runs) : runs[r].pc # "done" }

----------------------------------------------------------------------------
(* init and main *)

\* lines 37-51 with the exit taken only when both values are missing
InitFnBothMissing ==
    /\ phase = "init"
    /\ IF token = "" /\ chat = ""
       THEN phase' = "exited" /\ exitCode' = 1
       ELSE phase' = "main" /\ UNCHANGED exitCode
    /\ UNCHANGED <<token, chat, runNow, rssURLs, fired, overlapped, runs, lastFetch>>
    /\ UNCHANGED parseVars

\* lines 37-51
InitFn ==
    /\ phase = "init"
    /\ IF token = "" \/ chat = ""
       THEN phase' = "exited" /\ exitCode' = 1
       ELSE phase' = "main" /\ UNCHANGED exitCode
    /\ UNCHANGED <<token, chat, runNow, rssURLs, fired, overlapped, runs, lastFetch>>
    /\ UNCHANGED parseVars

\* lines 164-166: --now, runJob is called in the main goroutine
MainNow ==
    /\ phase = "main"
    /\ runNow
    /\ runs' = Append(runs, NewRun)
    /\ phase' = "manual"
    /\ UNCHANGED <<exitCode, token, chat, runNow, rssURLs, fired, overlapped, lastFetch>>
    /\ UNCHANGED parseVars

\* line 167 left out: after the run main goes on to start the scheduler
MainFallsThrough ==
    /\ phase = "manual"
    /\ Running = {}
    /\ phase' = "scheduled"
    /\ UNCHANGED <<exitCode, token, chat, runNow, rssURLs, fired, overlapped, runs, lastFetch>>
    /\ UNCHANGED parseVars

\* line 167: runJob has returned, main returns
MainReturns ==
    /\ phase = "manual"
    /\ Running = {}
    /\ phase' = "exited"
    /\ exitCode' = 0
    /\ UNCHANGED <<token, chat, runNow, rssURLs, fired, overlapped, runs, lastFetch>>
    /\ UNCHANGED parseVars

\* lines 171-190: the time zone is loaded (or is not in the image), the entry
\* "30 18 * * *" is added and the scheduler started
MainSchedule ==
    /\ phase = "main"
    /\ ~runNow
    /\ \E zoneFound \in BOOLEAN :
          IF zoneFound
          THEN phase' = "scheduled" /\ UNCHANGED exitCode
          ELSE phase' = "exited" /\ exitCode' = 1
    /\ UNCHANGED <<token, chat, runNow, rssURLs, fired, overlapped, runs, lastFetch>>
    /\ UNCHANGED parseVars

\* a firing that starts the job twice
StartTwice(rs) == rs \o <<NewRun, NewRun>>

\* lines 177 and 180: cron.New is given no job wrapper, so the scheduler
\* starts every firing of the entry in a goroutine of its own
Start(rs) == Append(rs, NewRun)

\* the cron entry fires, if fewer than limit firings have been followed
Fire(limit) ==
    /\ phase = "scheduled"
    /\ fired < limit
    /\ fired' = fired + 1
    /\ overlapped' = (overlapped \/ Running # {})
    /\ runs' = Start(runs)
    /\ UNCHANGED <<phase, exitCode, token, chat, runNow, rssURLs, lastFetch>>
    /\ UNCHANGED parseVars

\* 18:30 Asia/Ho_Chi_Minh
CronFires == Fire(MaxFirings)

CronFiresLive == Fire(MaxLiveFirings)

----------------------------------------------------------------------------
(* Specifications of the process *)

ProcIdle ==
    /\ phase = "init"
    /\ exitCode = NoCode
    /\ token = "t"
    /\ chat = "c"
    /\ runNow = FALSE
    /\ rssURLs = URLs
    /\ fired = 0
    /\ overlapped = FALSE
    /\ runs = <<>>
    /\ lastFetch = NoFetch

ParseIdle ==
    /\ ppc = "idle"
    /\ pieces = <<>>
    /\ style = <<NL>>
    /\ results = EmptyMap
    /\ results2 = EmptyMap
    /\ order = <<>>

----------------------------------------------------------------------------
(* Specification of parseDescription alone *)

InitParse ==
    /\ ProcIdle
    /\ ppc = "input"
    /\ style \in Styles
    /\ pieces \in SeqsUpTo(Pieces, IF style = <<NL>> THEN MaxPieces ELSE MaxStyled)
    /\ results = EmptyMap
    /\ results2 = EmptyMap
    /\ order = <<>>

\* prizesByLocation := parseDescription(item.Description)
Parse ==
    /\ ppc = "input"
    /\ results' = parseDescription(Desc)
    /\ results2' = parseDescription(DescNL)
    /\ ppc' = "parsed"
    /\ UNCHANGED <<pieces, style, order>>
    /\ UNCHANGED procVars

\* for loc, prizes := range prizesByLocation
RangeMap ==
    /\ ppc = "parsed"
    /\ order' \in Perms(DOMAIN results)
    /\ ppc' = "ranged"
    /\ UNCHANGED <<pieces, style, results, results2>>
    /\ UNCHANGED procVars

NextParse == Parse \/ RangeMap

SpecParse == InitParse /\ [][NextParse]_vars

----------------------------------------------------------------------------
(* The whole process: both modes, every configuration *)

Init ==
    /\ phase = "init"
    /\ exitCode = NoCode
    /\ token \in {"", "t"}
    /\ chat \in {"", "c"}
    /\ runNow \in BOOLEAN
    /\ rssURLs = URLs
    /\ fired = 0
    /\ overlapped = FALSE
    /\ runs = <<>>
    /\ lastFetch = NoFetch
    /\ ParseIdle

Fetch ==
    \E r \in 1..Len(runs) : \E s \in DOMAIN rssURLs : \E out \in SchedOutcomes :
        Visit(r, s, out) /\ UNCHANGED lastFetch

Send == \E r \in 1..Len(runs) : SendToTelegram(r)

Sent == \E r \in 1..Len(runs) : \E failed \in BOOLEAN : PostReturns(r, failed)

Next ==
    \/ InitFn
    \/ MainNow
    \/ MainReturns
    \/ MainSchedule
    \/ CronFires
    \/ Fetch
    \/ Send
    \/ Sent

Spec == Init /\ [][Next]_vars

\* every http.Get (line 54) and every http.Post (line 107) returns, with a
\* result or with an error, and a goroutine that can run does run
NextLive ==
    \/ InitFn
    \/ MainNow
    \/ MainReturns
    \/ MainSchedule
    \/ CronFiresLive
    \/ Fetch
    \/ Send
    \/ Sent

SpecLive ==
    /\ Init
    /\ [][NextLive]_vars
    /\ WF_vars(Fetch)
    /\ WF_vars(Send)
    /\ WF_vars(Sent)

----------------------------------------------------------------------------
(* One run of the job (--now, credentials present), over more feeds *)

InitJob ==
    /\ phase = "init"
    /\ exitCode = NoCode
    /\ token = "t"
    /\ chat = "c"
    /\ runNow = TRUE
    /\ rssURLs = URLs
    /\ fired = 0
    /\ overlapped = FALSE
    /\ runs = <<>>
    /\ lastFetch = NoFetch
    /\ ParseIdle

FetchJob ==
    \E r \in 1..Len(runs) : \E s \in DOMAIN rssURLs : \E out \in JobOutcomes :
        /\ Visit(r, s, out)
        /\ lastFetch' = [run |-> r, region |-> s, out |-> out, before |-> runs[r].msg]

NextJob ==
    \/ InitFn
    \/ MainNow
    \/ MainReturns
    \/ FetchJob
    \/ Send
    \/ Sent

SpecJob == InitJob /\ [][NextJob]_vars

----------------------------------------------------------------------------
(* What the claims say about a description, stated on its lines *)

RECURSIVE Flatten(_, _)
Flatten(ps, i) ==
    IF i > Len(ps) THEN <<>> ELSE Split(ps[i], NL) \o Flatten(ps, i + 1)

RECURSIVE TrimAll(_)
TrimAll(ls) ==
    IF ls = <<>> THEN <<>> ELSE <<TrimSpace(Head(ls))>> \o TrimAll(Tail(ls))

NonEmpty(l) == l # <<>>

\* the trimmed, non-empty lines of the description, in order
TextLines == SelectSeq(TrimAll(Flatten(pieces, 1)), NonEmpty)

MarkerLine(l) == Len(l) >= 1 /\ l[1] = "[" /\ \E i \in 1..Len(l) : l[i] = "]"

PrizeLine(l) == Len(l) >= 2 /\ l[1] = "G" /\ l[2] = "."

OtherLine(l) == ~MarkerLine(l) /\ ~PrizeLine(l)

NoMarker(tl) == \A i \in 1..Len(tl) : ~MarkerLine(tl[i])

GLines(tl) == SelectSeq(tl, PrizeLine)

SetMax(S) == CHOOSE m \in S : \A x \in S : x <= m
SetMin(S) == CHOOSE m \in S : \A x \in S : m <= x

\* the location in force at line i of tl: the last marker line before it, else ""
LocAt(tl, i) ==
    LET ms == { j \in 1..(i - 1) : MarkerLine(tl[j]) }
    IN IF ms = {} THEN <<>> ELSE tl[SetMax(ms)]

\* the prize lines of tl under location k, in the order of the description
RECURSIVE PrizesUnder(_, _, _)
PrizesUnder(tl, k, i) ==
    IF i > Len(tl) THEN <<>>
    ELSE IF PrizeLine(tl[i]) /\ LocAt(tl, i) = k
         THEN <<tl[i]>> \o PrizesUnder(tl, k, i + 1)
         ELSE PrizesUnder(tl, k, i + 1)

\* the marker at line i of tl is followed by a prize line before the next marker
FollowedByPrize(tl, i) ==
    \E j \in (i + 1)..Len(tl) :
        /\ PrizeLine(tl[j])
        /\ \A k \in (i + 1)..(j - 1) : ~MarkerLine(tl[k])

\* where label k is first encountered in tl: "" is in force from the start
FirstSeen(tl, k) ==
    IF k = <<>> THEN 0 ELSE SetMin({ i \in 1..Len(tl) : tl[i] = k })

Parsed == ppc = "parsed" /\ StyleRecognized(style)

Elems(q) == { q[i] : i \in 1..Len(q) }

----------------------------------------------------------------------------
(* Claims about parseDescription, checked under SpecParse *)

\* C3: the location groups come out in the order in which their labels were
\* first encountered in the description, and within each location the prize
\* lines are in the order they were encountered.
C3_EncounterOrder ==
    (ppc = "ranged" /\ StyleRecognized(style)) =>
        LET tl == TextLines IN
        /\ \A i, j \in 1..Len(order) :
              i < j => FirstSeen(tl, order[i]) < FirstSeen(tl, order[j])
        /\ \A k \in DOMAIN results : results[k] = PrizesUnder(tl, k, 1)

\* C7 as stated: a description with no location marker line gives exactly one
\* key, the empty string, mapped to all its G.-prefixed lines in order, also
\* when it has no G.-prefixed line.
C7_OneEmptyKey ==
    Parsed =>
        LET tl == TextLines IN
        NoMarker(tl) =>
            /\ DOMAIN results = {<<>>}
            /\ results[<<>>] = GLines(tl)

\* C7 amended: a description with no location marker line and at least one
\* G.-prefixed line gives exactly one key, the empty string, mapped to all its
\* G.-prefixed lines in order; with no G.-prefixed line the table has no key.
C7_OneEmptyKeyIfPrize ==
    Parsed =>
        LET tl == TextLines
            gl == GLines(tl)
        IN  NoMarker(tl) =>
                IF gl = <<>>
                THEN DOMAIN results = {}
                ELSE /\ DOMAIN results = {<<>>}
                     /\ results[<<>>] = gl

C7_Witness ==
    /\ Parsed
    /\ LET tl == TextLines
           gl == GLines(tl)
       IN  /\ NoMarker(tl)
           /\ Len(gl) >= 2
           /\ Len(tl) > Len(gl)
           /\ gl[1] # gl[2]
           /\ results[<<>>] = gl

\* C8 as stated: a location marker line followed by no prize line before the
\* next marker or the end of the text has an entry mapped to the empty sequence.
C8_EmptyEntry ==
    Parsed =>
        LET tl == TextLines IN
        \A i \in 1..Len(tl) :
            (MarkerLine(tl[i]) /\ ~FollowedByPrize(tl, i)) =>
                /\ tl[i] \in DOMAIN results
                /\ results[tl[i]] = <<>>

\* C8 amended: a location marker line followed by no prize line before the next
\* marker or the end of the text creates no entry: a label is a key exactly
\* when some occurrence of its marker line is followed by a prize line before
\* the next marker, and no key is mapped to the empty sequence.
C8_NoEmptyEntry ==
    Parsed =>
        LET tl == TextLines IN
        /\ \A i \in 1..Len(tl) :
              MarkerLine(tl[i]) =>
                  (tl[i] \in DOMAIN results <=>
                      \E j \in 1..Len(tl) : tl[j] = tl[i] /\ FollowedByPrize(tl, j))
        /\ \A k \in DOMAIN results : results[k] # <<>>

C8_Witness ==
    /\ Parsed
    /\ LocA \notin DOMAIN results
    /\ LocB \in DOMAIN results
    /\ \E i \in 1..Len(pieces) : pieces[i] = LocA

\* C9 as stated: descriptions that differ only in the spelling of the break
\* tag between their lines (<br>, <br/>, <br />, a mixed-case variant such as
\* <BR> or <Br/>, or a newline) give equal tables.
C9_AnySpelling ==
    ppc = "parsed" => results = results2

\* C9 amended: descriptions that differ only in which of <br>, <br/>, <br />
\* (in exactly these lower-case spellings) or a newline separates their lines
\* give equal tables.
C9_LowerSpelling ==
    Parsed => results = results2

C9_Witness ==
    /\ Parsed
    /\ style = <<BrSpaceSlash, BrLower, BrSlash, NL>>
    /\ Len(pieces) = MaxStyled
    /\ DOMAIN results # {}
    /\ results = results2

\* C10: every string in every value list is a trimmed, non-empty line of the
\* description that starts with G.; a line that is neither a location marker
\* nor a prize marker appears in no value list, creates no key, and does not
\* change the current location (the table is the one the description gives
\* with those lines left out).
NotNoise(p) == p # Noise

C10_OnlyPrizeLines ==
    Parsed =>
        LET tl == Elems(TextLines) IN
        /\ \A k \in DOMAIN results : \A i \in 1..Len(results[k]) :
              LET v == results[k][i] IN
              /\ v \in tl
              /\ v # <<>>
              /\ v[1] \notin Whitespace /\ v[Len(v)] \notin Whitespace
              /\ PrizeLine(v)
              /\ ~OtherLine(v)
        /\ \A k \in DOMAIN results : k = <<>> \/ (MarkerLine(k) /\ k \in tl)
        /\ results = parseDescription(Join(SelectSeq(pieces, NotNoise), <<NL>>))

C10_Witness ==
    /\ Parsed
    /\ Len(pieces) >= 4
    /\ pieces[1] = LocA /\ pieces[3] = Noise
    /\ PrizeLine(TrimSpace(pieces[2])) /\ PrizeLine(TrimSpace(pieces[4]))
    /\ results[LocA] = <<TrimSpace(pieces[2]), TrimSpace(pieces[4])>>

\* the lines of tl where marker k stands
OccurrencesOf(tl, k) == { i \in 1..Len(tl) : tl[i] = k }

\* C18: a location marker that occurs more than once in a description has a
\* single entry, whose value is the prize lines that follow each of its
\* occurrences, concatenated in encounter order; the label never comes out as
\* two groups.
C18_RepeatedMarkerMerged ==
    (ppc \in {"parsed", "ranged"} /\ StyleRecognized(style)) =>
        LET tl == TextLines IN
        \A k \in DOMAIN results :
            (MarkerLine(k) /\ Cardinality(OccurrencesOf(tl, k)) > 1) =>
                /\ results[k] = PrizesUnder(tl, k, 1)
                /\ ppc = "ranged" =>
                      Cardinality({ i \in 1..Len(order) : order[i] = k }) = 1

\* [A], a prize, [B], [A] again, another prize: both prizes are under [A]
C18_Witness ==
    /\ ppc = "ranged"
    /\ StyleRecognized(style)
    /\ Len(pieces) = 5
    /\ pieces[1] = LocA /\ pieces[3] = LocB /\ pieces[4] = LocA
    /\ PrizeLine(TrimSpace(pieces[2])) /\ PrizeLine(TrimSpace(pieces[5]))
    /\ pieces[2] # pieces[5]
    /\ results[LocA] = <<TrimSpace(pieces[2]), TrimSpace(pieces[5])>>
    /\ order = <<LocA>>

----------------------------------------------------------------------------
(* Claims about runJob and the scheduler *)

AllFetchedOnce(run) == \A s \in DOMAIN run.fetched : run.fetched[s] = 1

\* C1: in every run the Notifier is invoked exactly once, and only after every
\* configured source has been visited, whatever the outcome of each fetch.
C1_NotifiedOnce ==
    \A r \in 1..Len(runs) :
        /\ runs[r].sends <= 1
        /\ runs[r].sends = 1 => (runs[r].todo = {} /\ AllFetchedOnce(runs[r]))
        /\ runs[r].pc \in {"post", "done"} => runs[r].sends = 1
        /\ runs[r].pc = "loop" => runs[r].sends = 0

\* a run in which every source failed, and the message is on its way
C1_Witness ==
    \E r \in 1..Len(runs) :
        /\ runs[r].pc = "post"
        /\ runs[r].skipped = DOMAIN rssURLs
        /\ runs[r].sends = 1

\* 0 when sub does not occur in s, else where it first occurs
IndexOf(s, sub) ==
    LET at == { i \in 1..Len(s) : HasPrefixAt(s, sub, i) }
    IN IF at = {} THEN 0 ELSE SetMin(at)

HeaderStart(region) == <<"U+1F4E2", " ">> \o region \o <<" ", "-", " ">>

\* C2: in the message, the headers of the sources are in the configured order
\* Miền Bắc, Miền Trung, Miền Nam.
C2_ConfiguredOrder ==
    \A r \in 1..Len(runs) :
        runs[r].pc = "post" =>
            \A i, j \in 1..Len(Sources) :
                LET pi == IndexOf(runs[r].msg, HeaderStart(Sources[i]))
                    pj == IndexOf(runs[r].msg, HeaderStart(Sources[j]))
                IN (i < j /\ pi > 0 /\ pj > 0) => pi < pj

\* C4: no two executions of runJob are in progress at the same time.
C4_NoOverlap == Cardinality(Running) <= 1

\* C5: a source whose fetch fails or whose feed has no item leaves nothing in
\* the report (no header, no mention of its label), and every other source is
\* still fetched and, if it has an item, rendered under its header.
C5_SkippedLeaveNothing ==
    \A r \in 1..Len(runs) :
        LET run == runs[r]
            visited == DOMAIN run.fetched \ run.todo
        IN  /\ \A s \in run.skipped : ~Contains(run.msg, s)
            /\ run.skipped \subseteq visited
            /\ run.pc \in {"loop", "post"} =>
                  \A s \in visited \ run.skipped : Contains(run.msg, HeaderStart(s))
            /\ run.pc = "post" => visited = DOMAIN rssURLs
            /\ \A s \in DOMAIN run.fetched : run.fetched[s] = (IF s \in visited THEN 1 ELSE 0)

\* the first source visited failed, the other two were fetched and rendered
C5_Witness ==
    \E r \in 1..Len(runs) :
        /\ runs[r].pc = "post"
        /\ Cardinality(runs[r].skipped) = 1
        /\ \A s \in DOMAIN rssURLs \ runs[r].skipped :
              /\ IndexOf(runs[r].msg, HeaderStart(s)) > 0
              /\ runs[r].fetched[s] = 1

RECURSIVE SumSends(_)
SumSends(i) == IF i = 0 THEN 0 ELSE runs[i].sends + SumSends(i - 1)

\* C6: in scheduled mode, N firings that do not overlap give exactly N
\* Notifier invocations, each preceded by exactly one fetch of each source in
\* its run; no run is skipped or doubled, nothing is retried.
C6_OneRunPerFiring ==
    (phase = "scheduled" /\ ~overlapped) =>
        /\ Len(runs) = fired
        /\ \A r \in 1..Len(runs) :
              /\ runs[r].sends <= 1
              /\ runs[r].sends = 1 => AllFetchedOnce(runs[r])
              /\ \A s \in DOMAIN runs[r].fetched : runs[r].fetched[s] <= 1
        /\ Running = {} => SumSends(Len(runs)) = fired

C6_Witness ==
    /\ phase = "scheduled"
    /\ ~overlapped
    /\ fired >= 2
    /\ Running = {}
    /\ SumSends(Len(runs)) = fired

----------------------------------------------------------------------------
(* Claims about the report, checked under SpecJob *)

\* the text whose lines are ls, each ended by a newline
RECURSIVE Text(_)
Text(ls) == IF ls = <<>> THEN <<>> ELSE Head(ls) \o NL \o Text(Tail(ls))

\* the lines of one (location, lines) pair: the label if it is not empty, the
\* prize lines, one blank line
GroupLines(loc, prizes) ==
    (IF loc = <<>> THEN <<>> ELSE <<loc>>) \o prizes \o << <<>> >>

RECURSIVE TableLines(_, _, _)
TableLines(table, ord, i) ==
    IF i > Len(ord) THEN <<>>
    ELSE GroupLines(ord[i], table[ord[i]]) \o TableLines(table, ord, i + 1)

\* the lines a source contributes: its header, then its groups
SectionLines(region, title, table, ord) ==
    <<HeaderStart(region) \o title>> \o TableLines(table, ord, 1)

CountOf(s, sub) == Cardinality({ i \in 1..Len(s) : HasPrefixAt(s, sub, i) })

\* the latest fetch returned a feed with an item, and its run has not returned
JustRendered ==
    /\ lastFetch.run > 0
    /\ runs[lastFetch.run].pc \in {"loop", "post"}
    /\ ~lastFetch.out.err
    /\ Len(lastFetch.out.items) > 0

\* C11: a source with a fetched entry adds to the report exactly one header
\* line (label and title), then for each (location, lines) pair the label on
\* its own line only if it is not empty, each prize line on its own line and
\* one blank line; one location with two prize lines gives the header, the
\* label, two prize lines and one blank line.
C11_SectionLayout ==
    JustRendered =>
        LET f == lastFetch
            msg == runs[f.run].msg
            item == f.out.items[1]
            table == PrizeTable[item.Description]
        IN  /\ \E ord \in Perms(DOMAIN table) :
                  msg = f.before \o Text(SectionLines(f.region, item.Title, table, ord))
            /\ CountOf(msg, HeaderStart(f.region)) = 1
            /\ item.Description = DescOneLoc =>
                  msg = f.before \o
                        Text(<<HeaderStart(f.region) \o item.Title, LocA,
                               <<"G", ".", "1">>, <<"G", ".", "2">>, <<>> >>)

C11_Witness ==
    /\ JustRendered
    /\ lastFetch.out.items[1].Description = DescOneLoc
    /\ lastFetch.before # Title
    /\ Len(runs[lastFetch.run].msg) > Len(lastFetch.before)

\* C15: for a feed with one or more items only the first is consulted: what
\* is written for the source is the header with the title of item 0 and the
\* groups of the description of item 0, whatever the later items are.
C15_FirstItemOnly ==
    JustRendered =>
        LET f == lastFetch
            first == f.out.items[1]
            table == parseDescription(first.Description)
        IN  \E ord \in Perms(DOMAIN table) :
                runs[f.run].msg =
                    f.before \o Header(f.region, first.Title) \o WriteGroups(table, ord, 1)

C15_Witness ==
    /\ JustRendered
    /\ Len(lastFetch.out.items) = 2
    /\ lastFetch.out.items[2].Title # lastFetch.out.items[1].Title
    /\ lastFetch.out.items[2].Description # lastFetch.out.items[1].Description
    /\ Contains(runs[lastFetch.run].msg, lastFetch.out.items[1].Title)
    /\ ~Contains(runs[lastFetch.run].msg, lastFetch.out.items[2].Title)

----------------------------------------------------------------------------
(* Claims about the process, checked under Spec *)

\* C12: with --now, runJob executes exactly once, no schedule is registered
\* and the process then terminates; there is no second run.
C12_ManualRunsOnce ==
    runNow =>
        /\ Len(runs) <= 1
        /\ fired = 0
        /\ phase # "scheduled"
        /\ phase = "manual" => Len(runs) = 1
        /\ (phase = "exited" /\ exitCode = 0) =>
              (Len(runs) = 1 /\ runs[1].pc = "done" /\ runs[1].sends = 1)
        /\ (phase = "manual" /\ Running = {}) => ENABLED MainReturns

C12_Witness ==
    /\ runNow
    /\ phase = "exited"
    /\ exitCode = 0
    /\ Len(runs) = 1
    /\ runs[1].pc = "done"

\* C13: with the token or the destination missing, the process exits with a
\* non-zero status before any run: no fetch, no notification, no schedule, in
\* both modes.
C13_MissingConfigExits ==
    (token = "" \/ chat = "") =>
        /\ runs = <<>>
        /\ fired = 0
        /\ phase \in {"init", "exited"}
        /\ phase = "exited" => (exitCode # 0 /\ exitCode # NoCode)
        /\ phase = "init" => ENABLED InitFn

C13_Witness ==
    /\ token # ""
    /\ chat = ""
    /\ ~runNow
    /\ phase = "exited"
    /\ exitCode = 1

\* C14: a fetch error or a delivery error never ends the process and never
\* puts a run in a failed state: the run goes on to its end, the process exits
\* only as a manual run does, with status 0, and in scheduled mode the next
\* firing can still start a run.
C14_ErrorsNotFatal ==
    /\ \A r \in 1..Len(runs) :
          /\ runs[r].pc \in {"loop", "post", "done"}
          /\ runs[r].postErr => runs[r].pc = "done"
          /\ (runs[r].skipped # {} \/ runs[r].anySkipped \/ runs[r].postErr) =>
                \/ phase = "scheduled"
                \/ phase = "manual"
                \/ phase = "exited" /\ exitCode = 0 /\ runNow /\ Running = {}
          /\ (runs[r].pc = "loop" /\ runs[r].todo = {}) =>
                ENABLED SendToTelegram(r)
    /\ (phase = "scheduled" /\ fired < MaxFirings) => ENABLED CronFires

\* a fetch of the first run failed and so did its post; the run returned
\* and the next firing started a run
C14_Witness ==
    /\ phase = "scheduled"
    /\ ~overlapped
    /\ Len(runs) = 2
    /\ runs[1].pc = "done"
    /\ runs[1].anySkipped
    /\ runs[1].postErr
    /\ runs[2].pc = "loop"

\* a run as it is right after runJob is entered: nothing fetched, nothing
\* skipped, nothing sent, and the title alone in its report
Fresh(run) ==
    /\ run.pc = "loop"
    /\ run.msg = Title
    /\ run.todo = DOMAIN URLs
    /\ run.skipped = {}
    /\ \A s \in DOMAIN run.fetched : run.fetched[s] = 0
    /\ run.sends = 0

\* a step starts runs only fresh, whatever the earlier runs hold, changes at
\* most one of the runs that exist, adds to a report only at its end, and
\* leaves the source configuration alone
IndependentStep ==
    /\ rssURLs' = rssURLs
    /\ Len(runs') >= Len(runs)
    /\ \A r \in (Len(runs) + 1)..Len(runs') : Fresh(runs'[r])
    /\ \A r, q \in 1..Len(runs) :
          (r # q /\ runs'[r] # runs[r]) => runs'[q] = runs[q]
    /\ \A r \in 1..Len(runs) :
          \/ runs'[r].pc = "done"
          \/ /\ Len(runs'[r].msg) >= Len(runs[r].msg)
             /\ SubSeq(runs'[r].msg, 1, Len(runs[r].msg)) = runs[r].msg

\* C17: under SpecLive, where every HTTP GET and POST returns, every run that
\* has started eventually returns, whatever the fetches and the post gave.
C17_RunsComplete ==
    \A r \in 1..MaxLiveFirings :
        (Len(runs) >= r /\ runs[r].pc # "done") ~> (Len(runs) >= r /\ runs[r].pc = "done")

\* a scheduled run has returned after a skipped source and a failed post
C17_Witness ==
    /\ phase = "scheduled"
    /\ fired = 1
    /\ Len(runs) = 1
    /\ runs[1].pc = "done"
    /\ runs[1].anySkipped
    /\ runs[1].postErr

\* C16: the report of each run starts fresh and holds nothing of an earlier
\* run (a run starts with the title alone and only its own steps add to its
\* report), and the source configuration is the same in every state.
C16_RunsIndependent == [](rssURLs = URLs) /\ [][IndependentStep]_vars

C16_Witness ==
    /\ Len(runs) = 2
    /\ runs[1].pc = "done"
    /\ ~runs[1].anySkipped
    /\ runs[2].pc = "post"
    /\ runs[2].skipped # {}
    /\ runs[2].msg # Title
    /\ rssURLs = URLs

\* C19: the message passed to the Notifier begins with the fixed title line
\* followed by a blank line, so it is never empty; when every source failed or
\* had no entry it is that prefix and nothing else.
C19_TitleFirst ==
    LET n == Len(Title) IN
    /\ n > 2
    /\ Title[n - 1] = "\n"
    /\ Title[n] = "\n"
    /\ \A i \in 1..(n - 2) : Title[i] # "\n"
    /\ \A r \in 1..Len(runs) :
          runs[r].pc = "post" =>
              /\ runs[r].msg # <<>>
              /\ HasPrefix(runs[r].msg, Title)
              /\ runs[r].skipped = DOMAIN rssURLs => runs[r].msg = Title

C19_Witness ==
    \E r \in 1..Len(runs) :
        /\ runs[r].pc = "post"
        /\ runs[r].skipped = DOMAIN rssURLs
        /\ runs[r].msg = Title
        /\ Len(Title) > 2

====
